---- MODULE Spec2Model ----
(***************************************************************************)
(* word-cloud-email.js: the batch loop (processWebsites), the per-site     *)
(* orchestrator (analyzeWebsite), link discovery (fetchSitemap,            *)
(* scrapeInternalLinks), page selection (selectPages) and the SSR ratio    *)
(* (calculateSSRPercentage).  One action per awaited step of the code.     *)
(***************************************************************************)
EXTENDS Integers, Sequences, FiniteSets, TLC

\* ------------------------------------------------------------------ bounds
\* Longest list of <url> entries / anchors a sitemap or a homepage holds.
MaxLinks == 3

\* Longest body text, in characters, of a capture handed to
\* calculateSSRPercentage on its own.
MaxTextLen == 3

\* Most pieces (words and other tokens) a body text is split into.
MaxWords == 2

\* ------------------------------------------------------------ input domains
\* href attributes an anchor can carry (all root-relative, a[href^="/"]).
Hrefs == {"/", "/blog", "/shop", "/./blog"}

\* Text lengths (initialLength, finalLength) of the two captures of a page.
Captures == { <<0, 0>>, <<1, 2>>, <<2, 2>>, <<2, 1>> }

\* A run: the url column of word-cloud-input.csv in file order, and what
\* the audited sites can serve (the hrefs of their anchors and <loc>
\* entries, the text lengths of their pages).  A longer batch is explored
\* over a smaller web.
Worlds ==
    { [websites |-> <<>>, hrefs |-> Hrefs, captures |-> Captures],
      [websites |-> << "http://a.com/" >>,
       hrefs |-> Hrefs, captures |-> Captures],
      [websites |-> << "http://a.com/", "http://b.com/shop" >>,
       hrefs |-> {"/", "/blog"}, captures |-> { <<1, 2>> }],
      [websites |-> << "http://b.com/shop", "http://a.com/", "http://c.com:8080/" >>,
       hrefs |-> {"/"}, captures |-> { <<0, 0>> }] }

SeqsUpTo(S, n) == UNION { [1..m -> S] : m \in 0..n }

\* ------------------------------------------------------------- URL helpers
\* getHomepageUrl: protocol + "//" + hostname of the input URL (the path
\* and the port are dropped).
getHomepageUrl(url) ==
    CASE url = "http://a.com/"      -> "http://a.com"
      [] url = "http://b.com/shop"  -> "http://b.com"
      [] url = "http://c.com:8080/" -> "http://c.com"
      [] OTHER                      -> url

\* The pathname new URL(href, base) gives: dot segments are removed.
NormalizePath(href) == IF href = "/./blog" THEN "/blog" ELSE href

\* new URL(href, url).href for a root-relative href: origin of url + path.
ResolveHref(href, url) == getHomepageUrl(url) \o NormalizePath(href)

\* .filter((value, index, self) => self.indexOf(value) === index)
IndexOf(s, v) == CHOOSE i \in 1..Len(s) : s[i] = v /\ \A j \in 1..(i-1) : s[j] # v

FilterFirst(s) ==
    LET keep == { i \in 1..Len(s) : IndexOf(s, s[i]) = i }
        F[i \in 0..Len(s)] ==
            IF i = 0 THEN <<>>
            ELSE IF i \in keep THEN Append(F[i-1], s[i]) ELSE F[i-1]
    IN F[Len(s)]

\* .map(el => new URL($(el).attr('href'), url).href)
ResolveAll(hrefs, url) == [i \in 1..Len(hrefs) |-> ResolveHref(hrefs[i], url)]

\* HTML sitemap: $('a[href^="/"]').map(resolve).get().filter(first occurrence)
HtmlLinks(hrefs, url) == FilterFirst(ResolveAll(hrefs, url))

\* XML sitemap: result.urlset.url.map(u => u.loc[0])
XmlLinks(locs) == locs

\* scrapeInternalLinks: anchors of the live DOM, a.href resolved, first
\* occurrences kept.
ScrapedLinks(hrefs, url) == FilterFirst(ResolveAll(hrefs, url))

\* isSEORelevantPage: /product|blog|articles|post|category|news|shop|item|service/i
\* tested on the whole URL; of the URLs of the model, the ones whose path
\* is /blog or /shop hold a keyword (no host of the model does).
isSEORelevantPage(url) ==
    \E o \in {"http://a.com", "http://b.com", "http://c.com"} :
        url \in { o \o "/blog", o \o "/shop" }

\* ------------------------------------------------------------ selectPages
Undefined == "undefined"

\* urls.filter(isSEORelevantPage)
FilterRelevant(s) ==
    LET F[i \in 0..Len(s)] ==
            IF i = 0 THEN <<>>
            ELSE IF isSEORelevantPage(s[i]) THEN Append(F[i-1], s[i]) ELSE F[i-1]
    IN F[Len(s)]

\* urls[i] of JavaScript (0-based), undefined out of range.
At(urls, i) == IF i + 1 \in 1..Len(urls) THEN urls[i + 1] ELSE Undefined

\* Mutant of selectPages: the short-list test is off by one (length < 2).
selectPagesOffByOne(urls) ==
    IF Len(urls) < 2 THEN << At(urls, 0) >>
    ELSE
      LET relevantPages == FilterRelevant(urls)
      IN << At(urls, 0),
            IF Len(relevantPages) > 0
            THEN At(relevantPages, Len(relevantPages) \div 2)
            ELSE At(urls, Len(urls) \div 2),
            IF Len(relevantPages) > 1
            THEN At(relevantPages, Len(relevantPages) - 1)
            ELSE At(urls, Len(urls) - 1) >>

\* Mutant of selectPages: deepPage is taken from the relevant pages as soon
\* as there is one (length > 0 instead of length > 1).
selectPagesDeepFromOne(urls) ==
    IF Len(urls) < 3 THEN << At(urls, 0) >>
    ELSE
      LET relevantPages == FilterRelevant(urls)
      IN << At(urls, 0),
            IF Len(relevantPages) > 0
            THEN At(relevantPages, Len(relevantPages) \div 2)
            ELSE At(urls, Len(urls) \div 2),
            IF Len(relevantPages) > 0
            THEN At(relevantPages, Len(relevantPages) - 1)
            ELSE At(urls, Len(urls) - 1) >>

selectPages(urls) ==
    IF Len(urls) < 3 THEN << At(urls, 0) >>
    ELSE
      LET homepage == At(urls, 0)
          relevantPages == FilterRelevant(urls)
          midPage == IF Len(relevantPages) > 0
                     THEN At(relevantPages, Len(relevantPages) \div 2)
                     ELSE At(urls, Len(urls) \div 2)
          deepPage == IF Len(relevantPages) > 1
                      THEN At(relevantPages, Len(relevantPages) - 1)
                      ELSE At(urls, Len(urls) - 1)
      IN << homepage, midPage, deepPage >>

\* const [homePage, midPage, deepPage] = selectPages(...)
Destructure3(a) == [i \in 1..3 |-> IF i <= Len(a) THEN a[i] ELSE Undefined]

\* ------------------------------------------------ calculateSSRPercentage
\* The result in hundredths of a percent: (initial / final * 100).toFixed(2).
\* Mutant of calculateSSRPercentage: an empty final text counts as fully
\* rendered (100.00) instead of 0.
calculateSSRPercentageEmptyIsFull(initialLength, finalLength) ==
    IF finalLength = 0 THEN 10000
    ELSE (2 * initialLength * 10000 + finalLength) \div (2 * finalLength)

calculateSSRPercentage(initialLength, finalLength) ==
    IF finalLength = 0 THEN 0
    ELSE (2 * initialLength * 10000 + finalLength) \div (2 * finalLength)

\* ------------------------------------------------ generateWordFrequencies
\* The pieces text.split(/\W+/) cuts a body text into, before toLowerCase:
\* two spellings of one word, a stop word, a name every object inherits from
\* Object.prototype, a word that is too short, one that is too long and one
\* that holds a digit.
Tokens == {"The", "Fox", "fox", "constructor", "is", "internationally", "web2"}

toLowerCase(word) ==
    CASE word = "The" -> "the"
      [] word = "Fox" -> "fox"
      [] OTHER -> word

\* /^[a-z]+$/.test(word), for the lower-cased tokens.
OnlyLetters(word) == word \in {"the", "fox", "constructor", "is", "internationally"}

StopWords == {"the", "and", "for", "with", "from", "this", "that", "have",
              "not", "but", "are"}

\* The filter of generateWordFrequencies.
IsHumanReadable(word) ==
    /\ Len(word) > 2
    /\ Len(word) < 15
    /\ OnlyLetters(word)
    /\ word \notin StopWords

\* JavaScript values a property of wordCounts can hold or a lookup can give.
Number(n) == [type |-> "number", n |-> n]
UndefinedValue == [type |-> "undefined", n |-> 0]
FunctionValue == [type |-> "function", n |-> 0]
StringValue == [type |-> "string", n |-> 0]

\* The lower-case, letters-only property names of Object.prototype, which
\* every object created by {} inherits.
ObjectPrototype == {"constructor"}

\* const wordCounts = {}: own keys in insertion order and their values.
EmptyObject == [keys |-> <<>>, value |-> <<>>]

\* obj[word]: the own property, else the inherited one, else undefined.
Property(obj, word) ==
    IF \E i \in 1..Len(obj.keys) : obj.keys[i] = word
    THEN obj.value[IndexOf(obj.keys, word)]
    ELSE IF word \in ObjectPrototype THEN FunctionValue
    ELSE UndefinedValue

\* obj[word] = v: an own property, appended to the keys when it is new.
SetProperty(obj, word, v) ==
    IF \E i \in 1..Len(obj.keys) : obj.keys[i] = word
    THEN [obj EXCEPT !.value[IndexOf(obj.keys, word)] = v]
    ELSE [keys |-> Append(obj.keys, word), value |-> Append(obj.value, v)]

\* x || 0: undefined and 0 are falsy, a function or a non-empty string is not.
OrZero(x) ==
    IF x.type = "undefined" \/ (x.type = "number" /\ x.n = 0)
    THEN Number(0) ELSE x

\* x + 1: addition of numbers, else concatenation to a string.
PlusOne(x) == IF x.type = "number" THEN Number(x.n + 1) ELSE StringValue

\* x > 0: a function or the text of a function converts to NaN.
GreaterThanZero(x) == x.type = "number" /\ x.n > 0

RECURSIVE CountWords(_, _)
\* words.forEach(word => ...) on the pieces `words`, from wordCounts.
CountWords(words, wordCounts) ==
    IF words = <<>> THEN wordCounts
    ELSE LET word == toLowerCase(Head(words))
         IN CountWords(Tail(words),
                IF IsHumanReadable(word)
                THEN SetProperty(wordCounts, word,
                                 PlusOne(OrZero(Property(wordCounts, word))))
                ELSE wordCounts)

generateWordFrequencies(text) == CountWords(text, EmptyObject)

\* ----------------------------------- createEmailWithWordCloud: the word data
Green == "#4CAF50"
Grey == "#808080"

\* new Set([...Object.keys(userWordCounts), ...Object.keys(googleWordCounts)])
allWords(userWordCounts, googleWordCounts) ==
    FilterFirst(userWordCounts.keys \o googleWordCounts.keys)

RECURSIVE PushEntries(_, _, _, _)
\* allWords.forEach(word => ...) on the words `ws`, from wordData.
PushEntries(ws, userWordCounts, googleWordCounts, wordData) ==
    IF ws = <<>> THEN wordData
    ELSE LET word == Head(ws)
             userCount == OrZero(Property(userWordCounts, word))
             googleCount == OrZero(Property(googleWordCounts, word))
         IN PushEntries(Tail(ws), userWordCounts, googleWordCounts,
                IF GreaterThanZero(userCount)
                THEN Append(wordData,
                            [word |-> word, weight |-> userCount,
                             color |-> IF GreaterThanZero(googleCount)
                                       THEN Green ELSE Grey])
                ELSE wordData)

\* Mutant of wordData: every word of either map is emitted, green when the
\* no-scripting text has it.
wordDataOfEitherText(userWordCounts, googleWordCounts) ==
    LET ws == allWords(userWordCounts, googleWordCounts)
    IN [i \in 1..Len(ws) |->
          [word |-> ws[i],
           weight |-> OrZero(Property(userWordCounts, ws[i])),
           color |-> Green]]

wordData(userWordCounts, googleWordCounts) ==
    PushEntries(allWords(userWordCounts, googleWordCounts),
                userWordCounts, googleWordCounts, <<>>)

\* --------------------------------------------------------------- the state
VARIABLES
    websites,       \* processWebsites: the url column read from the input file
    web,            \* what the audited sites can serve (hrefs, captures)
    idx,            \* index in websites of the site analyzeWebsite last began
    pc,             \* the awaited step the single thread of control is at
    output,         \* the records csvWriter has written to the output file
    browsers,       \* browsers launched by puppeteer.launch() and not closed
    error,          \* analyzeWebsite: the call whose exception reached catch
    isReact,        \* analyzeWebsite: result of detectReact
    pathIdx,        \* fetchSitemap: position in sitemapPaths
    response,       \* fetchSitemap: entries parsed by the strategy returning
    strategy,       \* fetchSitemap: the strategy whose links it returned
    sitemapUrls,    \* analyzeWebsite: what fetchSitemap returned
    internalLinks,  \* analyzeWebsite: what the else-branch scrape returned
    pages,          \* analyzeWebsite: [homePage, midPage, deepPage]
    k,              \* analyzeWebsite: position in the loop over pages
    results,        \* analyzeWebsite: rows pushed by the loop
    lowestSSRPage,  \* analyzeWebsite: <<>> (null) or << the worst page >>
    calls,          \* calls made for the current site, in order
    unreadablePercentage, \* analyzeWebsite: <<>> or << what the report got >>
    fn,             \* the function last applied on its own ("" if none)
    arg,            \* [fn, args]: the function to apply on its own, its input
    ret             \* what the functions applied on their own returned

vars == << websites, web, idx, pc, output, browsers, error, isReact, pathIdx,
           response, strategy, sitemapUrls, internalLinks, pages, k, results,
           lowestSSRPage, calls, unreadablePercentage, fn, arg, ret >>

\* Mutant of sitemapPaths: the HTML sitemap is tried first.
sitemapPathsHtmlFirst == << "sitemap", "sitemap.xml", "site-map" >>

sitemapPaths == << "sitemap.xml", "sitemap", "site-map" >>

\* Names of the calls recorded in `calls`.
Get(path) == "GET /" \o path
DiscoveryScrapeCall == "fetchSitemap: scrapeInternalLinks"
FallbackScrapeCall == "analyzeWebsite: scrapeInternalLinks"

NoPages == << Undefined, Undefined, Undefined >>
DepthLabels == << "Homepage", "Mid", "Deep" >>

\* The SSR Percentage column: a number (hundredths of a percent) or a marker.
Pct(h) == [kind |-> "number", hundredths |-> h]
Marker(m) == [kind |-> m, hundredths |-> 0]

Row(base, analyzed, react, ssr, depth) ==
    [baseUrl |-> base, analyzedUrl |-> analyzed, isReact |-> react,
     ssrPercentage |-> ssr, depth |-> depth]

SkipRow(url) == Row(url, url, FALSE, Marker("N/A"), "N/A")
ErrorRow(url) == Row(url, url, FALSE, Marker("Error"), "Error")

inputUrl == websites[idx]

\* <loc> values a sitemap.xml of the site can list (absolute URLs).
Locs(url) == { ResolveHref(h, url) : h \in web.hrefs }

\* State after construction: the input file has been read ('end' event due).
Init ==
    /\ \E w \in Worlds :
         /\ websites = w.websites
         /\ web = [hrefs |-> w.hrefs, captures |-> w.captures]
    /\ idx = 0
    /\ pc = "Loop"
    /\ output = <<>>
    /\ browsers = 0
    /\ error = ""
    /\ isReact = FALSE
    /\ pathIdx = 1
    /\ response = <<>>
    /\ strategy = ""
    /\ sitemapUrls = <<>>
    /\ internalLinks = <<>>
    /\ pages = NoPages
    /\ k = 1
    /\ results = <<>>
    /\ lowestSSRPage = <<>>
    /\ calls = <<>>
    /\ unreadablePercentage = <<>>
    /\ fn = ""
    /\ arg = [fn |-> "", args |-> <<>>]
    /\ ret = <<>>

\* catch (error) of analyzeWebsite is entered from the call `call`.
Throw(call) ==
    /\ pc' = "Catch"
    /\ error' = call

\* Mutant of writeRecords: the rows are put before the rows of the file.
writeRecordsPrepends(records) == output' = records \o output

\* csvWriter.writeRecords(records) resolved: the rows are in the file.
writeRecords(records) == output' = output \o records

\* for (const website of websites) await analyzeWebsite(website);
processWebsites ==
    /\ pc = "Loop"
    /\ IF idx < Len(websites)
       THEN /\ idx' = idx + 1
            /\ pc' = "Render"
            /\ error' = ""
            /\ isReact' = FALSE
            /\ pathIdx' = 1
            /\ strategy' = ""
            /\ sitemapUrls' = <<>>
            /\ internalLinks' = <<>>
            /\ pages' = NoPages
            /\ k' = 1
            /\ results' = <<>>
            /\ lowestSSRPage' = <<>>
            /\ calls' = <<>>
            /\ unreadablePercentage' = <<>>
       ELSE /\ pc' = "BatchDone"
            /\ UNCHANGED << idx, error, isReact, pathIdx, strategy, sitemapUrls,
                            internalLinks, pages, k, results, lowestSSRPage, calls,
                            unreadablePercentage >>
    /\ response' = <<>>
    /\ UNCHANGED << fn, arg, ret, websites, web, output, browsers >>

\* analyzeWebsite: launch, newPage, setViewport, goto(baseUrl).
RenderHomepage ==
    /\ pc = "Render"
    /\ \/ /\ browsers' = browsers + 1
          /\ pc' = "Detect"
          /\ UNCHANGED error
       \/ \* puppeteer.launch rejects
          /\ Throw("goto")
          /\ UNCHANGED browsers
       \/ \* newPage / setViewport / goto rejects: the browser stays open
          /\ Throw("goto")
          /\ browsers' = browsers + 1
    /\ calls' = Append(calls, "goto")
    /\ response' = <<>>
    /\ UNCHANGED << unreadablePercentage, fn, arg, ret, websites, web, idx, output, isReact, pathIdx, strategy,
                    sitemapUrls, internalLinks, pages, k, results, lowestSSRPage >>

\* isReact = await detectReact(page); await browser.close(); if (!isReact) ...
DetectFramework ==
    /\ pc = "Detect"
    /\ \/ \* page.evaluate rejects: browser.close is not reached
          /\ Throw("detectReact")
          /\ UNCHANGED << browsers, isReact >>
       \/ \E detected \in BOOLEAN :
            /\ isReact' = detected
            /\ browsers' = browsers - 1
            /\ pc' = IF detected THEN "Sitemap" ELSE "Skip"
            /\ UNCHANGED error
    /\ calls' = Append(calls, "detectReact")
    /\ response' = <<>>
    /\ UNCHANGED << unreadablePercentage, fn, arg, ret, websites, web, idx, output, pathIdx, strategy, sitemapUrls,
                    internalLinks, pages, k, results, lowestSSRPage >>

\* Mutant of EmitSkipRow: the return after the write is missing.
EmitSkipRowFallsThrough ==
    /\ pc = "Skip"
    /\ \/ /\ writeRecords(<< Row(inputUrl, inputUrl, isReact,
                                 Marker("N/A"), "N/A") >>)
          /\ pc' = "Sitemap"
          /\ UNCHANGED error
       \/ /\ Throw("writeRecords")
          /\ UNCHANGED output
    /\ calls' = Append(calls, "writeRecords")
    /\ response' = <<>>
    /\ UNCHANGED << unreadablePercentage, fn, arg, ret, websites, web, idx, browsers, isReact, pathIdx, strategy,
                    sitemapUrls, internalLinks, pages, k, results, lowestSSRPage >>

\* if (!isReact) { await csvWriter.writeRecords([{... 'N/A' ...}]); return; }
EmitSkipRow ==
    /\ pc = "Skip"
    /\ \/ /\ writeRecords(<< Row(inputUrl, inputUrl, isReact,
                                 Marker("N/A"), "N/A") >>)
          /\ pc' = "Loop"
          /\ UNCHANGED error
       \/ \* writeRecords rejects
          /\ Throw("writeRecords")
          /\ UNCHANGED output
    /\ calls' = Append(calls, "writeRecords")
    /\ response' = <<>>
    /\ UNCHANGED << unreadablePercentage, fn, arg, ret, websites, web, idx, browsers, isReact, pathIdx, strategy,
                    sitemapUrls, internalLinks, pages, k, results, lowestSSRPage >>

\* Mutant of Discovered: two discovered links are enough to select from them.
DiscoveredTwoSuffice(links, call) ==
    /\ sitemapUrls' = links
    /\ strategy' = call
    /\ IF Len(links) > 1
       THEN /\ pages' = Destructure3(selectPages(links))
            /\ pc' = "Analyze"
            /\ calls' = calls \o << call, "selectPages" >>
       ELSE /\ pc' = "Fallback"
            /\ calls' = Append(calls, call)
            /\ UNCHANGED pages

\* analyzeWebsite, from the return of fetchSitemap to the next await:
\* if (sitemapUrls && sitemapUrls.length > 2) selectPages(sitemapUrls) else ...
Discovered(links, call) ==
    /\ sitemapUrls' = links
    /\ strategy' = call
    /\ IF Len(links) > 2
       THEN /\ pages' = Destructure3(selectPages(links))
            /\ pc' = "Analyze"
            /\ calls' = calls \o << call, "selectPages" >>
       ELSE /\ pc' = "Fallback"
            /\ calls' = Append(calls, call)
            /\ UNCHANGED pages

\* Mutant of NextStrategy: the catch block of the loop rethrows.
NextStrategyRethrows ==
    /\ Throw(Get(sitemapPaths[pathIdx]))
    /\ UNCHANGED pathIdx

\* fetchSitemap: catch (error) of one pass of the loop over sitemapPaths;
\* after the last path the loop ends and scrapeInternalLinks is next.
NextStrategy ==
    /\ IF pathIdx < Len(sitemapPaths)
       THEN pathIdx' = pathIdx + 1 /\ pc' = "Sitemap"
       ELSE pathIdx' = pathIdx /\ pc' = "Scrape"
    /\ UNCHANGED error

\* fetchSitemap: one pass of the loop over sitemapPaths.
FetchSitemapPath ==
    /\ pc = "Sitemap"
    /\ LET path == sitemapPaths[pathIdx]
           url == getHomepageUrl(inputUrl)
       IN \/ \* fetchWithJitter rejects, or the XML does not parse, or it
             \* holds no urlset.url (TypeError): caught, next path
             /\ NextStrategy
             /\ calls' = Append(calls, Get(path))
             /\ response' = <<>>
             /\ UNCHANGED << strategy, sitemapUrls, pages >>
          \/ /\ path = "sitemap.xml"
             /\ \E locs \in SeqsUpTo(Locs(url), MaxLinks) \ { <<>> } :
                  /\ response' = locs
                  /\ Discovered(XmlLinks(locs), Get(path))
             /\ UNCHANGED << pathIdx, error >>
          \/ /\ path # "sitemap.xml"
             /\ \E hrefs \in SeqsUpTo(web.hrefs, MaxLinks) :
                  /\ response' = hrefs
                  /\ Discovered(HtmlLinks(hrefs, url), Get(path))
             /\ UNCHANGED << pathIdx, error >>
    /\ UNCHANGED << unreadablePercentage, fn, arg, ret, websites, web, idx, output, browsers, isReact,
                    internalLinks, k, results, lowestSSRPage >>

\* fetchSitemap: return await scrapeInternalLinks(url) after the loop.
DiscoveryScrape ==
    /\ pc = "Scrape"
    /\ LET url == getHomepageUrl(inputUrl)
       IN \/ \* puppeteer.launch rejects
             /\ Throw(DiscoveryScrapeCall)
             /\ calls' = Append(calls, DiscoveryScrapeCall)
             /\ response' = <<>>
             /\ UNCHANGED << browsers, strategy, sitemapUrls, pages >>
          \/ \* newPage / goto / evaluate rejects: browser.close is not reached
             /\ Throw(DiscoveryScrapeCall)
             /\ browsers' = browsers + 1
             /\ calls' = Append(calls, DiscoveryScrapeCall)
             /\ response' = <<>>
             /\ UNCHANGED << strategy, sitemapUrls, pages >>
          \/ /\ \E hrefs \in SeqsUpTo(web.hrefs, MaxLinks) :
                  /\ response' = hrefs
                  /\ Discovered(ScrapedLinks(hrefs, url), DiscoveryScrapeCall)
             /\ UNCHANGED << browsers, error >>
    /\ UNCHANGED << unreadablePercentage, fn, arg, ret, websites, web, idx, output, isReact, pathIdx,
                    internalLinks, k, results, lowestSSRPage >>

\* analyzeWebsite, else branch: scrapeInternalLinks(homepageUrl), then
\* if (internalLinks.length > 0) selectPages(internalLinks).
ScrapeFallback ==
    /\ pc = "Fallback"
    /\ LET url == getHomepageUrl(inputUrl)
       IN \/ \* puppeteer.launch rejects
             /\ Throw(FallbackScrapeCall)
             /\ calls' = Append(calls, FallbackScrapeCall)
             /\ UNCHANGED << browsers, internalLinks, pages >>
          \/ \* newPage / goto / evaluate rejects: browser.close is not reached
             /\ Throw(FallbackScrapeCall)
             /\ browsers' = browsers + 1
             /\ calls' = Append(calls, FallbackScrapeCall)
             /\ UNCHANGED << internalLinks, pages >>
          \/ /\ \E hrefs \in SeqsUpTo(web.hrefs, MaxLinks) :
                  LET links == ScrapedLinks(hrefs, url)
                  IN /\ internalLinks' = links
                     /\ IF Len(links) > 0
                        THEN /\ pages' = Destructure3(selectPages(links))
                             /\ pc' = "Analyze"
                             /\ calls' = calls \o << FallbackScrapeCall, "selectPages" >>
                        ELSE /\ pc' = "Write"
                             /\ calls' = Append(calls, FallbackScrapeCall)
                             /\ UNCHANGED pages
             /\ UNCHANGED << browsers, error >>
    /\ response' = <<>>
    /\ UNCHANGED << unreadablePercentage, fn, arg, ret, websites, web, idx, output, isReact, pathIdx, strategy,
                    sitemapUrls, k, results, lowestSSRPage >>

\* Mutant of Lowest: a page with an equal percentage replaces the worst page.
LowestOrEqual(lowest, url, ssr) ==
    IF lowest = <<>> \/ ssr <= lowest[1].ssrPercentage
    THEN << [url |-> url, ssrPercentage |-> ssr] >>
    ELSE lowest

\* if (!lowestSSRPage || parseFloat(ssrPercentage) < parseFloat(lowest...))
Lowest(lowest, url, ssr) ==
    IF lowest = <<>> \/ ssr < lowest[1].ssrPercentage
    THEN << [url |-> url, ssrPercentage |-> ssr] >>
    ELSE lowest

\* analyzeWebsite: what follows a throw of analyzeSSR in the loop.
AnalysisFailed ==
    /\ Throw("analyzeSSR")
    /\ UNCHANGED << k, results, lowestSSRPage, output >>

\* analyzeWebsite: one pass of the loop over [homePage, midPage, deepPage];
\* analyzeSSR launches a browser and closes it on both of its exits.
AnalyzePage ==
    /\ pc = "Analyze"
    /\ LET pageUrl == pages[k]
           depth == DepthLabels[k]
           after == IF k < Len(pages) THEN "Analyze" ELSE "Write"
       IN IF pageUrl = Undefined
          THEN /\ pc' = after
               /\ k' = k + 1
               /\ UNCHANGED << error, results, lowestSSRPage, calls, output >>
          ELSE /\ calls' = Append(calls, "analyzeSSR")
               /\ \/ AnalysisFailed
                  \/ \E c \in web.captures :
                       LET ssrPercentage == calculateSSRPercentage(c[1], c[2])
                       IN /\ results' = Append(results,
                                 Row(inputUrl, pageUrl, isReact,
                                     Pct(ssrPercentage), depth))
                          /\ lowestSSRPage' =
                                 Lowest(lowestSSRPage, pageUrl, ssrPercentage)
                          /\ pc' = after
                          /\ k' = k + 1
                          /\ UNCHANGED << error, output >>
    /\ response' = <<>>
    /\ UNCHANGED << unreadablePercentage, fn, arg, ret, websites, web, idx, browsers, isReact, pathIdx, strategy,
                    sitemapUrls, internalLinks, pages >>

\* await csvWriter.writeRecords(results); if (lowestSSRPage) ...
EmitRows ==
    /\ pc = "Write"
    /\ \/ /\ writeRecords(results)
          /\ pc' = IF lowestSSRPage # <<>> THEN "Report" ELSE "Loop"
          /\ UNCHANGED error
       \/ \* writeRecords rejects
          /\ Throw("writeRecords")
          /\ UNCHANGED output
    /\ calls' = Append(calls, "writeRecords")
    /\ response' = <<>>
    /\ UNCHANGED << unreadablePercentage, fn, arg, ret, websites, web, idx, browsers, isReact, pathIdx, strategy,
                    sitemapUrls, internalLinks, pages, k, results, lowestSSRPage >>

\* Mutant of Unreadable: the SSR percentage itself is passed on.
UnreadableIsRatio(ssrPercentage) == ssrPercentage

\* (100 - parseFloat(lowestSSRPage.ssrPercentage)).toFixed(2), in hundredths.
Unreadable(ssrPercentage) == 10000 - ssrPercentage

\* const unreadablePercentage = ...; await createEmailWithWordCloud(..., baseUrl,
\* unreadablePercentage): launches a browser for the image,
\* closes it, then writes the email file.
GenerateReport ==
    /\ pc = "Report"
    /\ \/ /\ pc' = "Loop"
          /\ UNCHANGED << error, browsers >>
       \/ \* setContent / waitForSelector / screenshot rejects
          /\ Throw("createEmailWithWordCloud")
          /\ browsers' = browsers + 1
       \/ \* puppeteer.launch rejects, or fs.writeFileSync throws
          /\ Throw("createEmailWithWordCloud")
          /\ UNCHANGED browsers
    /\ unreadablePercentage' = << Unreadable(lowestSSRPage[1].ssrPercentage) >>
    /\ calls' = Append(calls, "createEmailWithWordCloud")
    /\ response' = <<>>
    /\ UNCHANGED << fn, arg, ret, websites, web, idx, output, isReact, pathIdx, strategy,
                    sitemapUrls, internalLinks, pages, k, results, lowestSSRPage >>

\* catch (error): what follows a rejection of the writeRecords in it.  It
\* is awaited outside any try, so analyzeWebsite rejects, and with it the
\* 'end' callback of processWebsites whose loop awaits it.
CatchRejected ==
    /\ pc' = "Aborted"
    /\ UNCHANGED output

\* catch (error) { await csvWriter.writeRecords([{... 'Error' ...}]); }
CatchError ==
    /\ pc = "Catch"
    /\ \/ /\ writeRecords(<< Row(inputUrl, inputUrl, FALSE,
                                 Marker("Error"), "Error") >>)
          /\ pc' = "Loop"
       \/ CatchRejected
    /\ calls' = Append(calls, "writeRecords")
    /\ response' = <<>>
    /\ UNCHANGED << unreadablePercentage, fn, arg, ret, websites, web, idx, browsers, error, isReact, pathIdx,
                    strategy, sitemapUrls, internalLinks, pages, k, results,
                    lowestSSRPage >>

Next ==
    \/ processWebsites
    \/ RenderHomepage
    \/ DetectFramework
    \/ EmitSkipRow
    \/ FetchSitemapPath
    \/ DiscoveryScrape
    \/ ScrapeFallback
    \/ AnalyzePage
    \/ EmitRows
    \/ GenerateReport
    \/ CatchError

Spec == Init /\ [][Next]_vars

\* ------------------------------------------- the pure functions on their own
\* No batch is running: the variables of processWebsites stay as they are
\* before the input file is read.
NoBatch ==
    /\ websites = <<>>
    /\ web = [hrefs |-> {}, captures |-> {}]
    /\ idx = 0
    /\ pc = "BatchDone"
    /\ output = <<>>
    /\ browsers = 0
    /\ error = ""
    /\ isReact = FALSE
    /\ pathIdx = 1
    /\ response = <<>>
    /\ strategy = ""
    /\ sitemapUrls = <<>>
    /\ internalLinks = <<>>
    /\ pages = NoPages
    /\ k = 1
    /\ results = <<>>
    /\ lowestSSRPage = <<>>
    /\ calls = <<>>
    /\ unreadablePercentage = <<>>

batchVars == << websites, web, idx, pc, output, browsers, error, isReact,
                pathIdx, response, strategy, sitemapUrls, internalLinks,
                pages, k, results, lowestSSRPage, calls,
                unreadablePercentage >>

\* The body texts of a capture, as the pieces split(/\W+/) cuts them into.
Texts == SeqsUpTo(Tokens, MaxWords)

\* The inputs: a pair of text lengths (initialText.length, finalText.length),
\* or the pair (userText, googleText) extracted from the worst page.
InitFunctions ==
    /\ NoBatch
    /\ fn = ""
    /\ ret = <<>>
    /\ \/ \E initialLength, finalLength \in 0..MaxTextLen :
            arg = [fn |-> "calculateSSRPercentage",
                   args |-> << initialLength, finalLength >>]
       \/ \E userText, googleText \in Texts :
            arg = [fn |-> "generateWordFrequencies",
                   args |-> << userText, googleText >>]

\* calculateSSRPercentage(initialText, finalText) returns.
ApplyCalculateSSRPercentage ==
    /\ fn = ""
    /\ arg.fn = "calculateSSRPercentage"
    /\ fn' = "calculateSSRPercentage"
    /\ ret' = << calculateSSRPercentage(arg.args[1], arg.args[2]) >>
    /\ UNCHANGED << arg, batchVars >>

\* userWordCounts and googleWordCounts are computed from the two texts.
ApplyGenerateWordFrequencies ==
    /\ fn = ""
    /\ arg.fn = "generateWordFrequencies"
    /\ fn' = "generateWordFrequencies"
    /\ ret' = << generateWordFrequencies(arg.args[1]),
                 generateWordFrequencies(arg.args[2]) >>
    /\ UNCHANGED << arg, batchVars >>

\* createEmailWithWordCloud prepares wordData from the two maps.
ApplyWordData ==
    /\ fn = "generateWordFrequencies"
    /\ fn' = "createEmailWithWordCloud"
    /\ ret' = << wordData(ret[1], ret[2]) >>
    /\ UNCHANGED << arg, batchVars >>

NextFunctions ==
    \/ ApplyCalculateSSRPercentage
    \/ ApplyGenerateWordFrequencies
    \/ ApplyWordData

SpecFunctions == InitFunctions /\ [][NextFunctions]_vars

\* ------------------------------------------------------- derived notions
Range(s) == { s[i] : i \in 1..Len(s) }

IsPrefix(a, b) == Len(a) <= Len(b) /\ \A i \in 1..Len(a) : a[i] = b[i]

NoDuplicates(s) == \A i, j \in 1..Len(s) : s[i] = s[j] => i = j

\* analyzeWebsite has returned for the i-th site of the input.
Done(i) == i >= 1 /\ (i < idx \/ (i = idx /\ pc \in {"Loop", "BatchDone"}))

\* The rows of the output file whose Base URL is url, in file order.
RowsOf(url) == SelectSeq(output, LAMBDA r : r.baseUrl = url)

\* A site is being, or was last, analysed.
InSite == idx >= 1

\* detectReact returned false for the current site.
NotReact ==
    InSite /\ "detectReact" \in Range(calls) /\ error # "detectReact" /\ ~isReact

\* The order in which the spec lists the discovery strategies.
StrategyOrder ==
    << "GET /sitemap.xml", "GET /sitemap", "GET /site-map",
       "fetchSitemap: scrapeInternalLinks" >>

\* The calls of discovery made for the current site, in order.
DiscoveryCalls == SelectSeq(calls, LAMBDA c : c \in Range(StrategyOrder))

\* Calls of discovery, selection, analysis and report generation.
WorkCalls ==
    Range(StrategyOrder) \cup
    {"analyzeWebsite: scrapeInternalLinks", "selectPages", "analyzeSSR",
     "createEmailWithWordCloud"}

\* ------------------------------------------------------------------ C1
\* C1: once the batch has finished, every site URL of the input has at
\* least one row in the output (full analysis, 'N/A' or 'Error').
C1_EveryInputSiteHasARow ==
    pc = "BatchDone" =>
        \A i \in 1..Len(websites) :
            \E n \in 1..Len(output) : output[n].baseUrl = websites[i]

\* ------------------------------------------------------------------ C2
\* C2: whenever a step of analyzeWebsite has thrown and the catch block has
\* run, the error was caught inside analyzeWebsite (the batch goes on) and
\* exactly one 'Error' row has been written for that site.
C2_ThrowYieldsOneErrorRow ==
    (InSite /\ error # "" /\ pc # "Catch") =>
        /\ pc # "Aborted"
        /\ Cardinality({ n \in 1..Len(output) : output[n] = ErrorRow(inputUrl) }) = 1

\* ------------------------------------------------------------------ C3
\* C3: if analyzeSSR failed on the second or third selected page, the rows
\* of the pages analysed before it are in the output once the site is done.
C3_RowsBeforeFailureWritten ==
    (InSite /\ error = "analyzeSSR" /\ Len(results) >= 1 /\ pc = "Loop") =>
        \A j \in 1..Len(results) : results[j] \in Range(output)

\* ------------------------------------------------------------------ C4
\* C4: no failure in one site aborts the batch: the loop over the input is
\* never abandoned while a site of the input has not reached Done.
C4_NoFailureAbortsBatch ==
    ~ (pc = "Aborted" /\ \E i \in 1..Len(websites) : ~ Done(i))

SiteIndex(url) == CHOOSE i \in 1..Len(websites) : websites[i] = url

DepthRank(d) ==
    CASE d = "Homepage" -> 1 [] d = "Mid" -> 2 [] d = "Deep" -> 3 [] OTHER -> 0

\* C6: rows are in input order (a row of an earlier site never follows a
\* row of a later site), and the analysed-page rows of one site carry the
\* depth labels in the order Homepage, Mid, Deep.
C6_RowsInInputOrder ==
    \A m, n \in 1..Len(output) :
        m < n =>
            /\ SiteIndex(output[m].baseUrl) <= SiteIndex(output[n].baseUrl)
            /\ ( /\ output[m].baseUrl = output[n].baseUrl
                 /\ DepthRank(output[m].depth) > 0
                 /\ DepthRank(output[n].depth) > 0 )
               => DepthRank(output[m].depth) < DepthRank(output[n].depth)

C6_Witness ==
    /\ Len(websites) >= 2
    /\ Len(output) >= 4
    /\ output[1].baseUrl = websites[1]
    /\ output[1].depth = "Homepage"
    /\ output[2].depth = "Mid"
    /\ output[3].depth = "Deep"
    /\ output[Len(output)].baseUrl = websites[2]

\* ------------------------------------------------------------------ C7
\* C7: the discovery calls made for a site are, in this order and without
\* a gap, /sitemap.xml, /sitemap, /site-map, the rendered-homepage scrape,
\* and end with the strategy whose links were returned: once a strategy
\* has succeeded no later one is attempted (after a parsed /sitemap.xml
\* the only discovery call is the one to /sitemap.xml).
C7_FirstSuccessWins ==
    /\ IsPrefix(DiscoveryCalls, StrategyOrder)
    /\ strategy # "" =>
          /\ DiscoveryCalls # <<>>
          /\ DiscoveryCalls[Len(DiscoveryCalls)] = strategy
    /\ (strategy = "GET /sitemap.xml" /\ Len(sitemapUrls) >= 1) =>
          DiscoveryCalls = << "GET /sitemap.xml" >>

C7_Witness ==
    /\ strategy = "GET /sitemap.xml"
    /\ Len(sitemapUrls) = 3
    /\ pc = "Loop"
    /\ DiscoveryCalls = << "GET /sitemap.xml" >>

\* ------------------------------------------------------------------ C8
\* C8: a failure of a sitemap strategy never reaches the catch block of
\* analyzeWebsite; after a failed strategy the next one is up or was
\* attempted; and discovery past three failed strategies returned the
\* links of the rendered-homepage scrape.
C8_SitemapFailureFallsThrough ==
    /\ error \notin { StrategyOrder[i] : i \in 1..3 }
    /\ \A i \in 1..3 :
         (StrategyOrder[i] \in Range(calls) /\ strategy # StrategyOrder[i]) =>
             \/ StrategyOrder[i + 1] \in Range(calls)
             \/ pc = "Sitemap" /\ pathIdx = i + 1
             \/ i = 3 /\ pc = "Scrape"
    /\ (strategy # "" /\ Len(DiscoveryCalls) = 4) =>
          /\ strategy = StrategyOrder[4]
          /\ response # <<>> =>
                Range(sitemapUrls) =
                    { ResolveHref(h, getHomepageUrl(inputUrl)) : h \in Range(response) }

C8_Witness ==
    /\ DiscoveryCalls = StrategyOrder
    /\ strategy = StrategyOrder[4]
    /\ Len(response) = 3
    /\ Len(sitemapUrls) = 3
    /\ pc = "Analyze"

\* ------------------------------------------------------------------ C9
\* The entries the returning strategy parsed, as absolute URLs.
ParsedUrls ==
    IF strategy = "GET /sitemap.xml" THEN response
    ELSE ResolveAll(response, getHomepageUrl(inputUrl))

\* C9: the links discovery returned hold no URL twice, whichever strategy
\* produced them, and are the parsed URLs in order of first occurrence.
C9_DiscoveredLinksDistinct ==
    strategy # "" =>
        /\ NoDuplicates(sitemapUrls)
        /\ response # <<>> => sitemapUrls = FilterFirst(ParsedUrls)

\* ------------------------------------------------------------------ C10
\* C10: for a candidate list of length 1 or 2 (the discovered links or the
\* scraped links of a site) selectPages returns exactly one URL, the first
\* of the list, and the loop gets it as homePage with midPage and deepPage
\* undefined.
C10_ShortListSelectsFirst ==
    /\ \A urls \in {sitemapUrls, internalLinks} :
         Len(urls) \in {1, 2} => selectPages(urls) = << urls[1] >>
    /\ Len(internalLinks) \in {1, 2} =>
         pages = << internalLinks[1], Undefined, Undefined >>

C10_Witness ==
    /\ Len(internalLinks) = 2
    /\ pages = << internalLinks[1], Undefined, Undefined >>
    /\ Len(results) = 1
    /\ results[1].analyzedUrl = internalLinks[1]
    /\ pc = "Write"

\* ------------------------------------------------------------------ C11
\* The SEO-relevant URLs of a list, in list order.
RelevantOf(urls) == SelectSeq(urls, LAMBDA u : isSEORelevantPage(u))

\* The selection the spec states for a list of 3 or more URLs (1-based).
StatedSelection(urls) ==
    LET R == RelevantOf(urls)
    IN << urls[1],
          IF Len(R) >= 1 THEN R[(Len(R) \div 2) + 1]
                         ELSE urls[(Len(urls) \div 2) + 1],
          IF Len(R) >= 2 THEN R[Len(R)] ELSE urls[Len(urls)] >>

\* The list the pages of the current site were selected from.
SelectedFrom == IF Len(sitemapUrls) > 2 THEN sitemapUrls ELSE internalLinks

\* C11: for a candidate list of 3 or more URLs (the discovered or the
\* scraped links of a site) selectPages returns homepage = first URL, mid =
\* middle relevant URL if any, else middle URL, deep = last relevant URL if
\* there are two or more, else last URL; the loop gets these three pages.
C11_SelectionOfThree ==
    /\ \A urls \in {sitemapUrls, internalLinks} :
         Len(urls) >= 3 => selectPages(urls) = StatedSelection(urls)
    /\ ("selectPages" \in Range(calls) /\ Len(SelectedFrom) >= 3) =>
         pages = StatedSelection(SelectedFrom)

C11_Witness ==
    /\ Len(sitemapUrls) = 3
    /\ Len(RelevantOf(sitemapUrls)) = 1
    /\ ~ isSEORelevantPage(sitemapUrls[3])
    /\ pages = << sitemapUrls[1], RelevantOf(sitemapUrls)[1], sitemapUrls[3] >>
    /\ pc = "Analyze"

\* C11, the case of no relevant URL: mid and deep are the middle and the
\* last element of the full list.
C11_WitnessNoRelevant ==
    /\ Len(sitemapUrls) = 3
    /\ RelevantOf(sitemapUrls) = <<>>
    /\ pages = << sitemapUrls[1], sitemapUrls[2], sitemapUrls[3] >>
    /\ pc = "Analyze"

\* ------------------------------------------------------------------ C12
\* calculateSSRPercentage has returned for the lengths arg.args.
SSRReturned == fn = "calculateSSRPercentage"

\* C12 as stated: the ratio lies in [0, 100] whenever finalLength > 0 and is
\* exactly 0 when finalLength = 0.
C12_RatioWithin100 ==
    SSRReturned =>
      LET finalLength == arg.args[2]
      IN /\ finalLength > 0 => (ret[1] >= 0 /\ ret[1] <= 10000)
         /\ finalLength = 0 => ret[1] = 0

\* C12, amended: the ratio is never negative; it is exactly 0 when
\* finalLength = 0; it lies in [0, 100] when 0 < finalLength and
\* initialLength <= finalLength; it is at least 100 when initialLength >
\* finalLength > 0. It is initialLength / finalLength * 100 rounded to the
\* nearest hundredth.
C12_RatioBoundedByLengths ==
    SSRReturned =>
      LET initialLength == arg.args[1]
          finalLength == arg.args[2]
          ratio == ret[1]
      IN /\ ratio >= 0
         /\ finalLength = 0 => ratio = 0
         /\ (finalLength > 0 /\ initialLength <= finalLength) => ratio <= 10000
         /\ (finalLength > 0 /\ initialLength > finalLength) => ratio >= 10000
         /\ finalLength > 0 =>
              /\ 2 * (ratio * finalLength - initialLength * 10000) <= finalLength
              /\ 2 * (initialLength * 10000 - ratio * finalLength) <= finalLength

\* The no-scripting text is longer than the scripting-enabled text.
C12_Witness ==
    /\ SSRReturned
    /\ arg.args[1] > arg.args[2]
    /\ arg.args[2] > 0
    /\ ret[1] > 10000

\* ------------------------------------------------------------------ C13
\* The words of a text that pass the filter of generateWordFrequencies, and
\* the number of times one of them occurs in the text.
Frequency(text, word) ==
    Cardinality({ i \in 1..Len(text) :
                    toLowerCase(text[i]) = word /\ IsHumanReadable(word) })

CountedWords == { toLowerCase(t) : t \in Tokens }

\* The word data has been prepared from the texts arg.args.
WordDataReturned == fn = "createEmailWithWordCloud"

EntriesOf(word) == { i \in 1..Len(ret[1]) : ret[1][i].word = word }

\* C13: the word data hold exactly one entry for each word whose frequency
\* in the scripting-enabled text (userText) is non-zero, weighted by that
\* frequency, and no entry for any other word.
C13_OneEntryPerUserWord ==
    WordDataReturned =>
      \A word \in CountedWords :
        LET f == Frequency(arg.args[1], word)
        IN IF f > 0
           THEN /\ Cardinality(EntriesOf(word)) = 1
                /\ \A i \in EntriesOf(word) : ret[1][i].weight = Number(f)
           ELSE EntriesOf(word) = {}

\* ------------------------------------------------------------------ C14
\* C14: an entry of the word data is green if and only if its word has a
\* non-zero frequency in the no-scripting text (googleText), else grey.
C14_GreenIffInGoogleText ==
    WordDataReturned =>
      \A i \in 1..Len(ret[1]) :
        /\ ret[1][i].color \in {Green, Grey}
        /\ ret[1][i].color = Green <=>
             Frequency(arg.args[2], ret[1][i].word) > 0

\* A word of both texts is emitted green; the no-scripting text also holds
\* a word the scripting-enabled text lacks.
C14_Witness ==
    /\ WordDataReturned
    /\ \E i \in 1..Len(ret[1]) :
         /\ ret[1][i].color = Green
         /\ Frequency(arg.args[1], ret[1][i].word) = 2
         /\ Frequency(arg.args[2], ret[1][i].word) = 1

\* C14, the grey case: a word of the scripting-enabled text only.
C14_WitnessGrey ==
    /\ WordDataReturned
    /\ \E i \in 1..Len(ret[1]) :
         /\ ret[1][i].color = Grey
         /\ Frequency(arg.args[2], ret[1][i].word) = 0
         /\ Frequency(arg.args[2], "constructor") > 0

\* ------------------------------------------------------------------ C15
\* C15: every browser launched for a site is closed on every exit path of
\* the step that launched it: no browser is open between two sites or after
\* the batch, and at most one browser is open at any time.
C15_BrowsersClosedOnEveryExit ==
    /\ pc \in {"Loop", "BatchDone", "Aborted"} => browsers = 0
    /\ browsers <= 1

\* ------------------------------------------------------------------ C16
\* The percentage of the j-th analysed page of the current site.
RatioOf(j) == results[j].ssrPercentage.hundredths

\* The first analysed page no other analysed page has a lower percentage than.
FirstLowest ==
    CHOOSE j \in 1..Len(results) :
      /\ \A i \in 1..Len(results) : RatioOf(j) <= RatioOf(i)
      /\ \A i \in 1..(j - 1) : RatioOf(i) > RatioOf(j)

\* C16: the worst page of a site is the analysed page with the lowest
\* ssrPercentage, the earliest of them on a tie (a later page replaces it
\* only when strictly lower), and there is one if and only if at least one
\* page of the site was analysed.
C16_WorstPageIsFirstLowest ==
    /\ lowestSSRPage = <<>> <=> results = <<>>
    /\ results # <<>> =>
         lowestSSRPage =
           << [url |-> results[FirstLowest].analyzedUrl,
               ssrPercentage |-> RatioOf(FirstLowest)] >>

\* Two pages tie: the earlier one stays the worst page.
C16_Witness ==
    /\ Len(results) = 3
    /\ RatioOf(1) > RatioOf(2)
    /\ RatioOf(3) = RatioOf(2)
    /\ results[3].analyzedUrl # results[2].analyzedUrl
    /\ lowestSSRPage[1].url = results[2].analyzedUrl

\* ------------------------------------------------------------------ C17
\* fetchSitemap has returned for the current site.
DiscoveryReturned == strategy # ""

\* The pages selected so far and the pages analysed so far all come from
\* the list `links`.
SelectedOnlyFrom(links) ==
    /\ \A j \in 1..3 : pages[j] # Undefined => pages[j] \in Range(links)
    /\ \A j \in 1..Len(results) : results[j].analyzedUrl \in Range(links)

\* C17: when discovery returned fewer than 3 links, analyzeWebsite runs the
\* rendered-homepage scrape itself and selects the pages from the scraped
\* list only; when it returned 3 or more, analyzeWebsite does not run the
\* scrape and selects exactly three pages from the discovered list.
C17_ScrapeIffFewerThanThree ==
    /\ (DiscoveryReturned /\ Len(sitemapUrls) < 3) =>
         /\ pc = "Fallback" \/ FallbackScrapeCall \in Range(calls)
         /\ "selectPages" \in Range(calls) =>
              pages = Destructure3(selectPages(internalLinks))
         /\ SelectedOnlyFrom(internalLinks)
    /\ (DiscoveryReturned /\ Len(sitemapUrls) >= 3) =>
         /\ pc # "Fallback"
         /\ FallbackScrapeCall \notin Range(calls)
         /\ internalLinks = <<>>
         /\ \A j \in 1..3 : pages[j] # Undefined
         /\ pages = selectPages(sitemapUrls)
         /\ SelectedOnlyFrom(sitemapUrls)

\* Two links were discovered, three scraped: a page outside the discovered
\* links is analysed.
C17_Witness ==
    /\ Len(sitemapUrls) = 2
    /\ Len(internalLinks) = 3
    /\ Len(results) = 3
    /\ \E j \in 1..3 : results[j].analyzedUrl \notin Range(sitemapUrls)

\* C17, the other case: three discovered links, three pages analysed.
C17_WitnessDiscovered ==
    /\ Len(sitemapUrls) = 3
    /\ Len(results) = 3
    /\ pc = "Write"

\* ------------------------------------------------------------------ C18
\* The calls of the report generator made for the current site.
ReportCalls == SelectSeq(calls, LAMBDA c : c = "createEmailWithWordCloud")

\* The rows of the current site stand in the output file, in one piece.
RowsWritten ==
    \E i \in 0..(Len(output) - Len(results)) :
       SubSeq(output, i + 1, i + Len(results)) = results

\* The call of the list `calls` made just before the first report call.
CallBeforeReport == calls[IndexOf(calls, "createEmailWithWordCloud") - 1]

\* C18: the report generator is invoked at most once per site, only after
\* the rows of the site were written, only if a worst page exists, never
\* for a site without the framework and never after a page analysis failed;
\* the unreadable percentage it gets is 100 minus the worst page's
\* ssrPercentage.
C18_ReportOnceAfterRows ==
    /\ Len(ReportCalls) <= 1
    /\ unreadablePercentage # <<>> <=> Len(ReportCalls) = 1
    /\ (pc = "Report" \/ Len(ReportCalls) = 1) =>
         /\ isReact
         /\ lowestSSRPage # <<>>
         /\ results # <<>>
         /\ RowsWritten
         /\ error # "analyzeSSR"
         /\ Len(SelectSeq(calls, LAMBDA c : c = "analyzeSSR")) = Len(results)
    /\ Len(ReportCalls) = 1 =>
         /\ CallBeforeReport = "writeRecords"
         /\ unreadablePercentage[1] = 10000 - lowestSSRPage[1].ssrPercentage
         /\ \A j \in 1..Len(results) :
              unreadablePercentage[1] >=
                10000 - results[j].ssrPercentage.hundredths
    /\ (NotReact \/ error \in {"analyzeSSR", "writeRecords"}) =>
         /\ pc # "Report"
         /\ ReportCalls = <<>>

\* The report of a site with three analysed pages, the worst of them with
\* no text at all without scripting.
C18_Witness ==
    /\ Len(ReportCalls) = 1
    /\ Len(results) = 3
    /\ lowestSSRPage[1].ssrPercentage = 0
    /\ unreadablePercentage = << 10000 >>
    /\ \E j \in 1..3 : results[j].ssrPercentage.hundredths = 5000

\* C18, a worst page whose no-scripting text is the longer one: the
\* unreadable percentage handed to the report is negative.
C18_WitnessNegative ==
    /\ Len(ReportCalls) = 1
    /\ lowestSSRPage[1].ssrPercentage = 20000
    /\ unreadablePercentage = << 0 - 10000 >>

\* ------------------------------------------------------------------ C19
\* C19: discovery returns an empty sequence only when the rendered-homepage
\* fallback of discovery was run and yielded zero links.
C19_EmptyOnlyFromScrape ==
    (DiscoveryReturned /\ sitemapUrls = <<>>) =>
       /\ strategy = DiscoveryScrapeCall
       /\ DiscoveryCalls = StrategyOrder

\* ------------------------------------------------------------------ C20
\* C20: when the list the pages were selected from has 3 or more pairwise
\* distinct URLs, the three selected pages are pairwise distinct, and so are
\* the URLs of the rows of the analysed pages.
C20_SelectedPagesDistinct ==
    ("selectPages" \in Range(calls)
       /\ Len(SelectedFrom) >= 3 /\ NoDuplicates(SelectedFrom)) =>
       /\ NoDuplicates(selectPages(SelectedFrom))
       /\ NoDuplicates(pages)
       /\ NoDuplicates([j \in 1..Len(results) |-> results[j].analyzedUrl])

\* ------------------------------------------------------------------ C21
\* The kind of a row of the output file: the short-circuit row, the failure
\* row, or the row of an analysed page.
KindOf(row) ==
    IF row.ssrPercentage.kind = "number" THEN "analysed"
    ELSE row.ssrPercentage.kind

\* The kinds of the rows the output file holds for the site url.
KindsOf(url) == { KindOf(RowsOf(url)[j]) : j \in 1..Len(RowsOf(url)) }

\* C21: the rows written for one site are of exactly one kind: the output
\* never holds, for the same site, an 'Error' row together with rows of
\* analysed pages or an 'N/A' row, and it holds at most one 'N/A' row and at
\* most one 'Error' row for the site.
C21_RowsOfOneKind ==
    \A i \in 1..Len(websites) :
       /\ Cardinality(KindsOf(websites[i])) <= 1
       /\ KindsOf(websites[i]) \subseteq {"N/A", "Error"} =>
            Len(RowsOf(websites[i])) <= 1

====
